---- MODULE Spec2Model ----
(***************************************************************************)
(* The turret control loop of src/mech/turret.cc: the periodic poll chain  *)
(* (HandleTimer, DoPoll, HandleCommand, HandleCurrent, HandleFireControl), *)
(* the register codec (Parser::get_int32, MakeCommand) and the command     *)
(* arbitration of Turret::SetCommand.                                      *)
(*                                                                         *)
(* Angles are doubles in the source.  Here an angle is an integer number   *)
(* of 1/10000 degree, so that one rate step (rate * period_s) of a whole   *)
(* deg/s rate is exact and the truncation to milli-degrees that the        *)
(* encoders do (static_cast<int>(deg * 1000.0)) is a real truncation.      *)
(* Rates are whole degrees per second.                                     *)
(***************************************************************************)
EXTENDS Integers, Sequences, FiniteSets, TLC

VARIABLES
  data_,          \* Turret::Impl::data_ (TurretData), without the timestamp
  timer,          \* timer_: "idle", "pending" (async_wait armed), "cancelled"
  outstanding,    \* requests handed to servo_ whose completion has not run
  cycle,          \* per poll tick in flight: what it issued and emitted
  failed,         \* base::Fail was reached: the process is gone
  prev_sequence,  \* history: the sequence of the previous SetCommand call
  ev,             \* history: the handler that ran last, its input, and the
                  \* requests, snapshots and log entries that run produced
  codec,          \* the register codec on its own: a value, its bytes and
                  \* what they decode to
  relearn         \* history: an absolute command was accepted, and since
                  \* then no poll tick ran and no command set imu_command

vars ==
  <<data_, timer, outstanding, cycle, failed, prev_sequence, ev, codec,
    relearn>>

-----------------------------------------------------------------------------
(* Bounds of the model *)

\* requests in flight on the device link
MaxOutstanding == 3
\* poll ticks whose read chain is in flight at once
MaxCycles == 2
\* largest sequence number a command carries
MaxSeq == 1
\* rate steps the yaw command may drift above 5 degrees before ticks stop
MaxYawSteps == 2
\* values spread evenly over the 28-bit range that the codec is tried on,
\* beside the values at its boundaries
MaxSample == 6

-----------------------------------------------------------------------------
(* Optional values: boost::optional<T> as a sequence of length 0 or 1 *)

None == <<>>
Some(v) == <<v>>
Has(o) == o # <<>>
Val(o) == o[1]

-----------------------------------------------------------------------------
(* Turret::Parameters (turret.h): the configuration of the session *)

\* period_s = 0.0025 s, as angle units per whole deg/s of rate
period_s == 25
min_y_deg == -300000
max_y_deg == 300000
min_x_deg == -900000
max_x_deg == 900000
gimbal_address == 98
fire_control_address == 99

-----------------------------------------------------------------------------
(* Register layout, turret.cc:27-60, 116, 179 *)

PitchCommand == [position |-> 80, length |-> 4]
YawCommand == [position |-> 84, length |-> 4]
AbsoluteYawCommand == [position |-> 104, length |-> 2]
ImuPitch == [position |-> 88, length |-> 4]
ImuYaw == [position |-> 92, length |-> 4]
AbsoluteYaw == [position |-> 96, length |-> 2]
LedControl == [position |-> 53, length |-> 1]
kAddressPitchCommand == 80
kAddressFirePwm == 81

-----------------------------------------------------------------------------
(* Arithmetic of the source *)

Max(a, b) == IF a >= b THEN a ELSE b
Min(a, b) == IF a <= b THEN a ELSE b

\* integer division rounding toward zero, as static_cast<int>(double) rounds
TruncDiv(a, b) == IF a >= 0 THEN a \div b ELSE -((-a) \div b)

\* static_cast<int>(deg * 1000.0): an angle truncated to whole milli-degrees
ToMilli(u) == TruncDiv(u, 10)

\* int32 / 1000.0: milli-degrees of the device as an angle
FromMilli(m) == m * 10

\* a | b of two non-negative ints, bit by bit
bit_or[a \in Nat, b \in Nat] ==
  IF a = 0 THEN b
  ELSE IF b = 0 THEN a
  ELSE (IF a % 2 = 1 \/ b % 2 = 1 THEN 1 ELSE 0)
         + 2 * bit_or[a \div 2, b \div 2]

BitOr(a, b) == bit_or[a, b]

Pow2(n) == 2 ^ n

\* uint8_t Parser::get(int index); index is 0-based in the source
get(register_data, index) == register_data[index + 1]

\* get_int32 taking 0x8000000, the threshold, off a value at or above it
get_int32_Subtract27(register_data, index) ==
  LET unextended ==
        BitOr(BitOr(get(register_data, index),
                    get(register_data, index + 1) * Pow2(7)),
              BitOr(get(register_data, index + 2) * Pow2(14),
                    get(register_data, index + 3) * Pow2(21)))
  IN IF unextended >= 134217728
     THEN unextended - 134217728
     ELSE unextended

\* int32_t Parser::get_int32(int index)
get_int32(register_data, index) ==
  LET unextended ==
        BitOr(BitOr(get(register_data, index),
                    get(register_data, index + 1) * Pow2(7)),
              BitOr(get(register_data, index + 2) * Pow2(14),
                    get(register_data, index + 3) * Pow2(21)))
  IN IF unextended >= 134217728
     THEN unextended - 128 * Pow2(21)
     ELSE unextended

\* Group7 without the mask: u8(val >> shift)
Group7_Unmasked(val, shift) == (val \div Pow2(shift)) % 256

\* u8(val & 0x7f) of (val >> shift), val a two's-complement int
Group7(val, shift) == (val \div Pow2(shift)) % 128

\* std::string Turret::Impl::MakeCommand(const TurretCommand::Imu&)
MakeCommand(command) ==
  LET pitch_command == ToMilli(command.y_deg)
      yaw_command == ToMilli(command.x_deg)
  IN << Group7(pitch_command, 0), Group7(pitch_command, 7),
        Group7(pitch_command, 14), Group7(pitch_command, 21),
        Group7(yaw_command, 0), Group7(yaw_command, 7),
        Group7(yaw_command, 14), Group7(yaw_command, 21) >>

\* std::max(lo, std::min(hi, v))
Limit(lo, hi, v) == Max(lo, Min(hi, v))

-----------------------------------------------------------------------------
(* Requests handed to Mech::ServoBase.  A request stays in `outstanding`  *)
(* from the call that issues it until its completion handler has run.     *)
(* The link is one logical connection: completions arrive in the order    *)
(* the requests were issued.                                              *)

Request(fn, address, position, length, data, value, handler, tick) ==
  [fn |-> fn, address |-> address, position |-> position, length |-> length,
   data |-> data, value |-> value, handler |-> handler, tick |-> tick]

\* servo_->MemRead(RAM_READ, address, position, length, handler)
MemRead(address, position, length, handler, tick) ==
  Request("MemRead", address, position, length, <<>>, 0, handler, tick)

\* servo_->MemWrite(RAM_WRITE, address, position, data, HandleWrite)
MemWrite(address, position, data, tick) ==
  Request("MemWrite", address, position, Len(data), data, 0, "HandleWrite", tick)

\* servo_->RamWrite(address, field, value, HandleWrite)
RamWrite(address, field, value) ==
  Request("RamWrite", address, field.position, field.length, <<>>, value,
          "HandleWrite", 0)

\* void Turret::Impl::SendImuCommand(const TurretCommand::Imu&)
SendImuCommand(command, tick) ==
  MemWrite(gimbal_address, PitchCommand.position, MakeCommand(command), tick)

Remove(s, i) == SubSeq(s, 1, i - 1) \o SubSeq(s, i + 1, Len(s))

\* the requests whose completion may run next
Completable(outs) == IF outs = <<>> THEN {} ELSE {1}

-----------------------------------------------------------------------------
(* TurretData (turret.h) *)

\* TurretCommand::Rate(): the rate of a default-constructed command
ZeroRate == [x_deg_s |-> 0, y_deg_s |-> 0]

\* the denominator of (absolute_int - 0x3fff) / (0x7fff * 360.0)
AbsoluteDen == 32767 * 360

InitData ==
  [imu_command |-> None,
   rate |-> ZeroRate,
   imu |-> [x_deg |-> 0, y_deg |-> 0],
   absolute |-> [x_deg |-> [num |-> 0, den |-> AbsoluteDen], y_deg |-> 0],
   fire_enabled |-> FALSE,
   agitator_enabled |-> FALSE,
   last_sequence |-> 0]

-----------------------------------------------------------------------------
(* Inputs: the commands a caller submits and the bytes the devices answer *)

Imu(x, y) == [x_deg |-> x, y_deg |-> y]
Rate(x, y) == [x_deg_s |-> x, y_deg_s |-> y]

TurretCommand(sequence, absolute, imu, rate, laser_on) ==
  [sequence |-> sequence, absolute |-> absolute, imu |-> imu, rate |-> rate,
   laser_on |-> laser_on]

\* every combination of the three optional fields with each laser state;
\* commands at and beyond the limits; and commands under every sequence
Commands ==
  { TurretCommand(1, a, i, r, l) :
      a \in {None, Some(Imu(100000, 450000))},
      i \in {None, Some(Imu(50000, 450000))},
      r \in {None, Some(Rate(10, 0))},
      l \in BOOLEAN }
  \cup { TurretCommand(1, Some(Imu(-1000000, -450000)), None, None, FALSE),
         TurretCommand(1, Some(Imu(0, 123456)), None, None, FALSE),
         TurretCommand(1, None, Some(Imu(50000, -300001)), None, TRUE),
         TurretCommand(1, None, None, Some(Rate(0, -24000)), TRUE) }
  \cup { TurretCommand(s, None, Some(Imu(50000, -20000)), None, FALSE) :
           s \in 0..MaxSeq }

\* one command of each kind, for the specifications that widen something
\* else: the timer being cancelled, a longer queue of the link
FewCommands ==
  { TurretCommand(1, Some(Imu(100000, 450000)), None, None, TRUE),
    TurretCommand(1, None, Some(Imu(50000, -20000)), None, FALSE),
    TurretCommand(1, None, None, Some(Rate(0, -24000)), TRUE) }

\* answers to the 8-byte read at 0x50: (pitch -2.000, yaw 5.000) and
\* (pitch 31.500, yaw 5.000), the second beyond max_y_deg
CommandResponses ==
  { <<48, 112, 127, 127, 8, 39, 0, 0>>,
    <<12, 118, 1, 0, 8, 39, 0, 0>> }

\* answers to the 10-byte read at 0x58
CurrentResponses == { <<82, 9, 0, 0, 104, 10, 127, 127, 127, 63>> }

\* answers to the 2-byte read at the fire control board
FireControlResponses == { <<3, 0>>, <<0, 1>> }

\* the requests in flight in the specification of the races between
\* commands and read completions: the reads of a tick and the three writes
\* of an absolute command
RaceOutstanding == MaxOutstanding + 2

\* the yaw command beyond which this model stops the timer from ticking
YawCap == 50000 + MaxYawSteps * period_s * 10

-----------------------------------------------------------------------------
(* Turret::SetCommand, turret.cc:258-325.  Each operator gives the new    *)
(* data_ and the requests issued, in the order the source issues them.    *)

Effect(d, issued) == [data |-> d, issued |-> issued]

\* AbsolutePitchCommand without the limit of turret.cc:279-282
AbsolutePitchCommand_Unlimited(y_deg) == ToMilli(y_deg)

\* turret.cc:279-284: the pitch written by an absolute command
AbsolutePitchCommand(y_deg) == ToMilli(Limit(min_y_deg, max_y_deg, y_deg))

\* turret.cc:290-297: the value written to the absolute yaw register,
\* int(limited_yaw_deg / 0x3fff * 360.0 + 0x1fff) held into [0, 0x3fff]
AbsoluteYawValue(x_deg) ==
  LET limited_yaw_deg == Limit(min_x_deg, max_x_deg, x_deg)
      n == limited_yaw_deg * 360
      den == 16383 * 10000
      floor == 8191 + (n \div den)
      truncated == IF floor >= 0 \/ n % den = 0 THEN floor ELSE floor + 1
  IN Max(0, Min(16383, truncated))

\* turret.cc:268-300: the absolute branch
SetAbsolute(d, command) ==
  Effect([d EXCEPT !.imu_command = None, !.rate = ZeroRate],
         << RamWrite(gimbal_address, PitchCommand,
                     AbsolutePitchCommand(Val(command.absolute).y_deg)),
            RamWrite(gimbal_address, AbsoluteYawCommand,
                     AbsoluteYawValue(Val(command.absolute).x_deg)) >>)

\* turret.cc:304-308: the value stored into imu_command
ImuCommandStored(imu) ==
  [imu EXCEPT !.y_deg = Limit(min_y_deg, max_y_deg, imu.y_deg)]

\* turret.cc:301-311: the IMU relative branch; the write is made from
\* *command.imu, the command as received
SetImu(d, command) ==
  Effect([d EXCEPT !.imu_command = Some(ImuCommandStored(Val(command.imu))),
                   !.rate = ZeroRate],
         << SendImuCommand(Val(command.imu), 0) >>)

\* SetRate forgetting the relative command, as the absolute branch does
SetRate_ClearsCommand(d, command) ==
  Effect([d EXCEPT !.rate = Val(command.rate), !.imu_command = None], <<>>)

\* turret.cc:312-318: the rate branch
SetRate(d, command) ==
  Effect([d EXCEPT !.rate = Val(command.rate)], <<>>)

\* Arbitrate with the IMU relative test ahead of the absolute one
Arbitrate_ImuFirst(d, command) ==
  IF Has(command.imu) THEN SetImu(d, command)
  ELSE IF Has(command.absolute) THEN SetAbsolute(d, command)
  ELSE IF Has(command.rate) THEN SetRate(d, command)
  ELSE Effect(d, <<>>)

\* turret.cc:268-318: if (absolute) ... else if (imu) ... else if (rate) ...
Arbitrate(d, command) ==
  IF Has(command.absolute) THEN SetAbsolute(d, command)
  ELSE IF Has(command.imu) THEN SetImu(d, command)
  ELSE IF Has(command.rate) THEN SetRate(d, command)
  ELSE Effect(d, <<>>)

\* Leds shifted by one bit instead of two
Leds_Bit1(laser_on) == (IF laser_on THEN 1 ELSE 0) * 2

\* turret.cc:321: uint8_t leds = (command.laser_on ? 1 : 0) << 2
Leds(laser_on) == (IF laser_on THEN 1 ELSE 0) * 4

\* turret.cc:320-324
UpdateLaser(command) ==
  RamWrite(fire_control_address, LedControl, Leds(command.laser_on))

\* turret.cc:266: the test that drops a command
IsRepeated(d, command) == command.sequence = d.last_sequence

\* LogCommand moved below the repeated-sequence test
LogCommand_AfterRepeatTest(d, command) ==
  IF IsRepeated(d, command) THEN <<>> ELSE << command >>

\* turret.cc:259-263: the CommandLog entries turret_command_signal_ emits
LogCommand(d, command) == << command >>

\* turret.cc:258-325
SetCommandEffect(d, command) ==
  IF IsRepeated(d, command) THEN Effect(d, <<>>)
  ELSE LET a == Arbitrate(d, command)
       IN Effect(a.data, Append(a.issued, UpdateLaser(command)))

-----------------------------------------------------------------------------
(* Turret::Impl::DoPoll, turret.cc:113-150 *)

\* turret.cc:128-129
RateMotion(d) ==
  Has(d.imu_command) /\ (d.rate.x_deg_s # 0 \/ d.rate.y_deg_s # 0)

\* NextCommand without the pitch limit of turret.cc:133-135
NextCommand_Unlimited(command, rate) ==
  [x_deg |-> command.x_deg + rate.x_deg_s * period_s,
   y_deg |-> command.y_deg + rate.y_deg_s * period_s]

\* turret.cc:130-135
NextCommand(command, rate) ==
  [x_deg |-> command.x_deg + rate.x_deg_s * period_s,
   y_deg |-> Limit(min_y_deg, max_y_deg,
                   command.y_deg + rate.y_deg_s * period_s)]

\* PollCommandRead without the test of turret.cc:115
PollCommandRead_Always(d, tick) ==
  << MemRead(gimbal_address, kAddressPitchCommand, 8, "HandleCommand", tick) >>

\* turret.cc:115-123: the read of the current command, when it is not known
PollCommandRead(d, tick) ==
  IF ~Has(d.imu_command)
  THEN << MemRead(gimbal_address, kAddressPitchCommand, 8, "HandleCommand",
                  tick) >>
  ELSE <<>>

\* PollRate without the test of imu_command at turret.cc:128: a rate step
\* is made from a default command when none is known
PollRate_CommandUnknown(d, tick) ==
  IF d.rate.x_deg_s # 0 \/ d.rate.y_deg_s # 0
  THEN LET next == NextCommand(IF Has(d.imu_command)
                               THEN Val(d.imu_command) ELSE Imu(0, 0),
                               d.rate)
       IN Effect([d EXCEPT !.imu_command = Some(next)],
                 << SendImuCommand(next, tick) >>)
  ELSE Effect(d, <<>>)

\* turret.cc:128-140: the rate step and its write
PollRate(d, tick) ==
  IF RateMotion(d)
  THEN LET next == NextCommand(Val(d.imu_command), d.rate)
       IN Effect([d EXCEPT !.imu_command = Some(next)],
                 << SendImuCommand(next, tick) >>)
  ELSE Effect(d, <<>>)

\* turret.cc:143-149: the read of the IMU and absolute coordinates
PollCurrentRead(tick) ==
  << MemRead(gimbal_address, ImuPitch.position,
             ImuPitch.length + ImuYaw.length + AbsoluteYaw.length,
             "HandleCurrent", tick) >>

\* DoPoll with the read of the coordinates issued first
DoPoll_CurrentFirst(d, tick) ==
  LET r == PollRate(d, tick)
  IN Effect(r.data,
            PollCurrentRead(tick) \o PollCommandRead(d, tick) \o r.issued)

\* turret.cc:113-150
DoPoll(d, tick) ==
  LET r == PollRate(d, tick)
  IN Effect(r.data,
            PollCommandRead(d, tick) \o r.issued \o PollCurrentRead(tick))

-----------------------------------------------------------------------------
(* The read completions, turret.cc:152-201 *)

\* turret.cc:156-161
DecodeCommand(d, response) ==
  [d EXCEPT !.imu_command =
     Some([y_deg |-> FromMilli(get_int32(response, 0)),
           x_deg |-> FromMilli(get_int32(response, 4))])]

\* turret.cc:169-176
DecodeCurrent(d, response) ==
  LET absolute_int == BitOr(get(response, 8), get(response, 9) * Pow2(7))
                        % Pow2(16)
  IN [d EXCEPT !.imu = [y_deg |-> FromMilli(get_int32(response, 0)),
                        x_deg |-> FromMilli(get_int32(response, 4))],
               !.absolute = [y_deg |-> FromMilli(get_int32(response, 0)),
                             x_deg |-> [num |-> absolute_int - 16383,
                                        den |-> AbsoluteDen]]]

\* turret.cc:180-185
FireControlRead(tick) ==
  << MemRead(fire_control_address, kAddressFirePwm, 2, "HandleFireControl",
             tick) >>

\* turret.cc:192-193
DecodeFireControl(d, response) ==
  [d EXCEPT !.fire_enabled = get(response, 0) # 0,
            !.agitator_enabled = get(response, 1) # 0]

-----------------------------------------------------------------------------
(* Inputs of the register codec on its own *)

\* milli-degree values at the boundaries of the 7-bit groups and of the
\* signed 28-bit range, one beyond it on each side, and MaxSample values
\* spread over the range
CodecValues ==
  { -Pow2(27) - 1, -Pow2(27), -Pow2(27) + 1, -Pow2(21) - 1, -Pow2(21),
    -Pow2(14) - 1, -Pow2(14), -129, -128, -127, -1, 0, 1, 127, 128,
    Pow2(14) - 1, Pow2(14), Pow2(21) - 1, Pow2(21), Pow2(27) - 1, Pow2(27) }
  \cup { -Pow2(27) + k * (Pow2(28) \div (MaxSample + 1)) + k :
           k \in 1..MaxSample }

\* the values a byte of a response is tried with, all below 0x80
CodecGroups == {0, 1, 63, 64, 127}

\* responses: four groups for the pitch field, the same reversed for yaw
CodecResponses ==
  { <<b0, b1, b2, b3, b3, b2, b1, b0>> :
      b0 \in CodecGroups, b1 \in CodecGroups,
      b2 \in CodecGroups, b3 \in CodecGroups }

\* the codec at rest, as it is while the turret runs
CodecIdle ==
  [stage |-> "idle", from |-> "none", command |-> Imu(0, 0), data |-> <<>>,
   decoded |-> <<>>]

\* a command to encode; a response to decode
CodecInputs ==
  { [CodecIdle EXCEPT !.stage = "command", !.from = "command",
                      !.command = Imu(FromMilli(x), FromMilli(y))] :
      x \in CodecValues, y \in CodecValues }
  \cup { [CodecIdle EXCEPT !.stage = "data", !.from = "response",
                           !.data = r] : r \in CodecResponses }

-----------------------------------------------------------------------------
(* State *)

Cycles == 1..MaxCycles

\* a poll tick in flight: whether it issued the command-register read, which
\* of its publishing completions have run, the snapshots published for it
FreeCycle ==
  [active |-> FALSE, cmdIssued |-> FALSE, cmdDone |-> FALSE, fcDone |-> FALSE,
   emits |-> 0]

\* EmitsOf with HandleCommand not calling Emit()
EmitsOf_CommandSilent(handler) ==
  CASE handler = "HandleFireControl" -> 1
    [] OTHER -> 0

\* the calls of Emit() (turret.cc:198-201) a completion handler makes
EmitsOf(handler) ==
  CASE handler = "HandleCommand" -> 1
    [] handler = "HandleFireControl" -> 1
    [] OTHER -> 0

\* what the last handler run was: the handler, the error code or command it
\* was given (a read completion's response is put in by the handler, see
\* Received), the requests it issued (in order), the number of snapshots it
\* published through Emit, the CommandLog entries it emitted, its poll tick
\* and that tick's tally once the handler has run
Event(op, ec, cmd, issued, emits, log, tick, cyc) ==
  [op |-> op, ec |-> ec, cmd |-> cmd, response |-> <<>>, issued |-> issued,
   emits |-> emits, log |-> log, tick |-> tick, cycle |-> cyc]

\* the event of a read completion that was given `response`
Received(e, response) == [e EXCEPT !.response = response]

Init ==
  /\ data_ = InitData
  /\ timer = "idle"
  /\ outstanding = <<>>
  /\ cycle = [t \in Cycles |-> FreeCycle]
  /\ failed = FALSE
  /\ prev_sequence = None
  /\ ev = Event("Init", "ok", None, <<>>, 0, <<>>, 0,
                 FreeCycle)
  /\ codec = CodecIdle
  /\ relearn = FALSE

Pending(outs, tick) == \E i \in 1..Len(outs) : outs[i].tick = tick

\* a tick's entry is dropped once its fire control read has completed and
\* none of its requests is in flight
Release(cyc, outs) ==
  [t \in Cycles |->
     IF cyc[t].fcDone /\ ~Pending(outs, t) THEN FreeCycle ELSE cyc[t]]

IssuesCommandRead(issued) ==
  \E i \in 1..Len(issued) : issued[i].handler = "HandleCommand"

-----------------------------------------------------------------------------
(* Actions *)

\* Turret::AsyncStart, turret.cc:252-256 (StartTimer, turret.cc:98-103)
AsyncStart ==
  /\ ~failed
  /\ timer = "idle"
  /\ timer' = "pending"
  /\ ev' = Event("AsyncStart", "ok", None, <<>>, 0, <<>>, 0,
                 FreeCycle)
  /\ UNCHANGED <<data_, outstanding, cycle, failed, prev_sequence,
                 codec, relearn>>

\* timer_.cancel(): the controller is stopped while the timer is armed
Cancel ==
  /\ ~failed
  /\ timer = "pending"
  /\ timer' = "cancelled"
  /\ ev' = Event("Cancel", "ok", None, <<>>, 0, <<>>, 0,
                 FreeCycle)
  /\ UNCHANGED <<data_, outstanding, cycle, failed, prev_sequence,
                 codec, relearn>>

\* HandleTimer without the test of turret.cc:106: operation_aborted goes to
\* FailIf like any other error
HandleTimerAborted_Fatal ==
  /\ ~failed
  /\ timer = "cancelled"
  /\ timer' = "stopped"
  /\ failed' = TRUE
  /\ outstanding' = <<>>
  /\ cycle' = [t \in Cycles |-> FreeCycle]
  /\ ev' = Event("HandleTimer", "operation_aborted", None, <<>>, 0, <<>>, 0,
                 FreeCycle)
  /\ relearn' = FALSE
  /\ UNCHANGED <<data_, prev_sequence, codec>>

\* HandleTimer, turret.cc:105-111, with ec == operation_aborted
HandleTimerAborted ==
  /\ ~failed
  /\ timer = "cancelled"
  /\ timer' = "stopped"
  /\ ev' = Event("HandleTimer", "operation_aborted", None, <<>>, 0, <<>>, 0,
                 FreeCycle)
  /\ UNCHANGED <<data_, outstanding, cycle, failed, prev_sequence,
                 codec, relearn>>

\* HandleTimer with any other error: base::FailIf(ec)
HandleTimerError ==
  /\ ~failed
  /\ timer = "pending"
  /\ timer' = "stopped"
  /\ failed' = TRUE
  /\ outstanding' = <<>>
  /\ cycle' = [t \in Cycles |-> FreeCycle]
  /\ ev' = Event("HandleTimer", "error", None, <<>>, 0, <<>>, 0,
                 FreeCycle)
  /\ relearn' = FALSE
  /\ UNCHANGED <<data_, prev_sequence, codec>>

\* HandleTimer without the StartTimer() of turret.cc:108: the poll runs and
\* the timer is left unarmed
HandleTimerWithin_NotRearmed(limit) ==
  /\ ~failed
  /\ timer = "pending"
  /\ \E t \in Cycles :
       /\ ~cycle[t].active
       /\ \A u \in Cycles : u < t => cycle[u].active
       /\ LET r == DoPoll(data_, t)
          IN /\ Len(outstanding) + Len(r.issued) <= limit
             /\ Has(r.data.imu_command) =>
                  Val(r.data.imu_command).x_deg <= YawCap
             /\ data_' = r.data
             /\ outstanding' = outstanding \o r.issued
             /\ cycle' = [cycle EXCEPT ![t] =
                            [active |-> TRUE,
                             cmdIssued |-> IssuesCommandRead(r.issued),
                             cmdDone |-> FALSE, fcDone |-> FALSE,
                             emits |-> 0]]
             /\ ev' = Event("HandleTimer", "ok", None, r.issued,
                            EmitsOf("HandleTimer"), <<>>, t, cycle'[t])
  /\ relearn' = FALSE
  /\ timer' = "idle"
  /\ UNCHANGED <<failed, prev_sequence, codec>>

\* HandleTimer with success: StartTimer(); DoPoll(); `limit` is the number
\* of requests the link holds
HandleTimerWithin(limit) ==
  /\ ~failed
  /\ timer = "pending"
  /\ \E t \in Cycles :
       /\ ~cycle[t].active
       /\ \A u \in Cycles : u < t => cycle[u].active
       /\ LET r == DoPoll(data_, t)
          IN /\ Len(outstanding) + Len(r.issued) <= limit
             /\ Has(r.data.imu_command) =>
                  Val(r.data.imu_command).x_deg <= YawCap
             /\ data_' = r.data
             /\ outstanding' = outstanding \o r.issued
             /\ cycle' = [cycle EXCEPT ![t] =
                            [active |-> TRUE,
                             cmdIssued |-> IssuesCommandRead(r.issued),
                             cmdDone |-> FALSE, fcDone |-> FALSE,
                             emits |-> 0]]
             /\ ev' = Event("HandleTimer", "ok", None, r.issued,
                            EmitsOf("HandleTimer"), <<>>, t, cycle'[t])
  /\ relearn' = FALSE
  /\ UNCHANGED <<timer, failed, prev_sequence, codec>>

HandleTimer == HandleTimerWithin(MaxOutstanding)

\* the same with room for two more requests on the link
HandleTimerRace == HandleTimerWithin(RaceOutstanding)

\* whether the relative command is to be learnt again once `command` has
\* run: an accepted absolute command asks for it (turret.cc:271-274), an
\* accepted IMU relative command makes it known (turret.cc:304)
Relearn(before, d, command) ==
  IF IsRepeated(d, command) THEN before
  ELSE IF Has(command.absolute) THEN TRUE
  ELSE IF Has(command.imu) THEN FALSE
  ELSE before

\* Turret::SetCommand, turret.cc:258-325, called with one of `commands`
SetCommandFrom(commands, limit) ==
  /\ ~failed
  /\ \E command \in commands :
       LET r == SetCommandEffect(data_, command)
       IN /\ Len(outstanding) + Len(r.issued) <= limit
          /\ data_' = r.data
          /\ outstanding' = outstanding \o r.issued
          /\ prev_sequence' = Some(command.sequence)
          /\ ev' = Event("SetCommand", "ok", Some(command), r.issued, 0,
                         LogCommand(data_, command), 0, FreeCycle)
          /\ relearn' = Relearn(relearn, data_, command)
  /\ UNCHANGED <<timer, cycle, failed, codec>>

SetCommand == SetCommandFrom(Commands, MaxOutstanding)

\* the same while the controller is being stopped
SetCommandStop == SetCommandFrom(FewCommands, MaxOutstanding)

\* the same with room for two more requests on the link
SetCommandRace == SetCommandFrom(FewCommands, RaceOutstanding)

\* a completion that carries an error: FailIf(ec) is the handler's first
\* statement, and base::Fail ends the process with whatever is in flight
Fail(i) ==
  /\ failed' = TRUE
  /\ outstanding' = <<>>
  /\ cycle' = [t \in Cycles |-> FreeCycle]
  /\ timer' = "stopped"
  /\ ev' = Event(outstanding[i].handler, "error", None, <<>>, 0, <<>>,
                 outstanding[i].tick, FreeCycle)
  /\ relearn' = FALSE
  /\ UNCHANGED <<data_, prev_sequence, codec>>

\* HandleCommand, turret.cc:152-163
HandleCommand ==
  /\ ~failed
  /\ \E i \in Completable(outstanding) :
       /\ outstanding[i].handler = "HandleCommand"
       /\ \/ Fail(i)
          \/ \E response \in CommandResponses :
               LET t == outstanding[i].tick
                   c == [cycle EXCEPT
                           ![t].emits = @ + EmitsOf("HandleCommand"),
                           ![t].cmdDone = TRUE]
               IN /\ data_' = DecodeCommand(data_, response)
                  /\ outstanding' = Remove(outstanding, i)
                  /\ cycle' = Release(c, outstanding')
                  /\ ev' = Received(Event("HandleCommand", "ok", None, <<>>,
                                 EmitsOf("HandleCommand"), <<>>, t, c[t]),
                                  response)
                  /\ UNCHANGED <<timer, failed, prev_sequence, codec, relearn>>

\* HandleCurrent, turret.cc:165-186
HandleCurrent ==
  /\ ~failed
  /\ \E i \in Completable(outstanding) :
       /\ outstanding[i].handler = "HandleCurrent"
       /\ \/ Fail(i)
          \/ \E response \in CurrentResponses :
               LET t == outstanding[i].tick
               IN /\ data_' = DecodeCurrent(data_, response)
                  /\ outstanding' =
                       Remove(outstanding, i) \o FireControlRead(t)
                  /\ ev' = Received(Event("HandleCurrent", "ok", None,
                                 FireControlRead(t),
                                 EmitsOf("HandleCurrent"), <<>>, t, cycle[t]),
                                  response)
                  /\ UNCHANGED <<timer, cycle, failed, prev_sequence,
                                 codec, relearn>>

\* HandleFireControl, turret.cc:188-196
HandleFireControl ==
  /\ ~failed
  /\ \E i \in Completable(outstanding) :
       /\ outstanding[i].handler = "HandleFireControl"
       /\ \/ Fail(i)
          \/ \E response \in FireControlResponses :
               LET t == outstanding[i].tick
                   c == [cycle EXCEPT
                           ![t].emits = @ + EmitsOf("HandleFireControl"),
                           ![t].fcDone = TRUE]
               IN /\ data_' = DecodeFireControl(data_, response)
                  /\ outstanding' = Remove(outstanding, i)
                  /\ cycle' = Release(c, outstanding')
                  /\ ev' = Received(Event("HandleFireControl", "ok", None, <<>>,
                                 EmitsOf("HandleFireControl"), <<>>, t,
                                 c[t]),
                                  response)
                  /\ UNCHANGED <<timer, failed, prev_sequence, codec, relearn>>

\* HandleWrite with an empty body: the error code is not looked at
HandleWrite_ErrorIgnored ==
  /\ ~failed
  /\ \E i \in Completable(outstanding) :
       /\ outstanding[i].handler = "HandleWrite"
       /\ \E ec \in {"ok", "error"} :
            /\ outstanding' = Remove(outstanding, i)
            /\ cycle' = Release(cycle, outstanding')
            /\ ev' = Event("HandleWrite", ec, None, <<>>,
                           EmitsOf("HandleWrite"), <<>>,
                           outstanding[i].tick, FreeCycle)
            /\ UNCHANGED <<data_, timer, failed, prev_sequence,
                           codec, relearn>>

\* HandleWrite, turret.cc:203-205
HandleWrite ==
  /\ ~failed
  /\ \E i \in Completable(outstanding) :
       /\ outstanding[i].handler = "HandleWrite"
       /\ \/ Fail(i)
          \/ /\ outstanding' = Remove(outstanding, i)
             /\ cycle' = Release(cycle, outstanding')
             /\ ev' = Event("HandleWrite", "ok", None, <<>>,
                            EmitsOf("HandleWrite"), <<>>,
                            outstanding[i].tick, FreeCycle)
             /\ UNCHANGED <<data_, timer, failed, prev_sequence,
                            codec, relearn>>

Next ==
  \/ AsyncStart
  \/ HandleTimerError
  \/ HandleTimer
  \/ SetCommand
  \/ HandleCommand
  \/ HandleCurrent
  \/ HandleFireControl
  \/ HandleWrite

Spec == Init /\ [][Next]_vars

\* the same with the controller being stopped: the timer is cancelled
NextStop ==
  \/ AsyncStart
  \/ Cancel
  \/ HandleTimerAborted
  \/ HandleTimerError
  \/ HandleTimer
  \/ SetCommandStop
  \/ HandleCommand
  \/ HandleCurrent
  \/ HandleFireControl
  \/ HandleWrite

SpecStop == Init /\ [][NextStop]_vars

\* the same as Spec with a longer queue of the link, so that a command can
\* arrive while the reads of a tick are in flight
NextRace ==
  \/ AsyncStart
  \/ HandleTimerError
  \/ HandleTimerRace
  \/ SetCommandRace
  \/ HandleCommand
  \/ HandleCurrent
  \/ HandleFireControl
  \/ HandleWrite

SpecRace == Init /\ [][NextRace]_vars

-----------------------------------------------------------------------------
(* The poll chain when the device link does not fail and the timer is not  *)
(* cancelled: no completion carries an error.  The timer fires whenever it *)
(* is armed, and the link completes the request at its head; the commands  *)
(* are the caller's, who may send any number or none.  The bound on the    *)
(* link holds the caller back and leaves room for the reads of a tick, so  *)
(* that no number of commands keeps the timer from firing.                 *)

\* the caller's command while the poll chain is followed: a target in the
\* device's frame, one write on the link
LiveCommands ==
  { TurretCommand(1, None, Some(Imu(50000, -20000)), None, FALSE) }

SetCommandLive == SetCommandFrom(LiveCommands, MaxOutstanding)

HandleCommandOk == HandleCommand /\ ~failed'

HandleCurrentOk == HandleCurrent /\ ~failed'

HandleFireControlOk == HandleFireControl /\ ~failed'

HandleWriteOk == HandleWrite /\ ~failed'

NextLive ==
  \/ AsyncStart
  \/ HandleTimerRace
  \/ SetCommandLive
  \/ HandleCommandOk
  \/ HandleCurrentOk
  \/ HandleFireControlOk
  \/ HandleWriteOk

SpecLive ==
  /\ Init
  /\ [][NextLive]_vars
  /\ WF_vars(HandleTimerRace)
  /\ WF_vars(HandleCommandOk)
  /\ WF_vars(HandleCurrentOk)
  /\ WF_vars(HandleFireControlOk)
  /\ WF_vars(HandleWriteOk)

-----------------------------------------------------------------------------
(* The register codec on its own: MakeCommand (turret.cc:207-225) applied  *)
(* to a command, and Parser::get_int32 (turret.cc:71-81) applied to the    *)
(* eight bytes of a command-register response.                             *)

\* MakeCommand(command): the data of the write, which the device holds in
\* its command registers
CodecEncode ==
  /\ codec.stage = "command"
  /\ codec' = [codec EXCEPT !.stage = "data",
                            !.data = MakeCommand(codec.command)]
  /\ UNCHANGED <<data_, timer, outstanding, cycle, failed, prev_sequence, ev,
               relearn>>

\* parser.get_int32(0), parser.get_int32(4) of the registers read back
CodecDecode ==
  /\ codec.stage = "data"
  /\ codec' = [codec EXCEPT !.stage = "decoded",
                            !.decoded = << get_int32(codec.data, 0),
                                           get_int32(codec.data, 4) >>]
  /\ UNCHANGED <<data_, timer, outstanding, cycle, failed, prev_sequence, ev,
               relearn>>

CodecInit ==
  /\ data_ = InitData
  /\ timer = "idle"
  /\ outstanding = <<>>
  /\ cycle = [t \in Cycles |-> FreeCycle]
  /\ failed = FALSE
  /\ prev_sequence = None
  /\ ev = Event("Init", "ok", None, <<>>, 0, <<>>, 0, FreeCycle)
  /\ codec \in CodecInputs
  /\ relearn = FALSE

CodecNext == CodecEncode \/ CodecDecode

SpecCodec == CodecInit /\ [][CodecNext]_vars

-----------------------------------------------------------------------------
(* Vocabulary of the properties *)

IsWrite(w) == w.fn \in {"MemWrite", "RamWrite"}

\* a write that starts at the gimbal's pitch command register, 0x50
IsPitchWrite(w) ==
  IsWrite(w) /\ w.address = gimbal_address /\ w.position = 80

\* a write to the gimbal's absolute yaw command register, 0x68
IsAbsoluteYawWrite(w) ==
  IsWrite(w) /\ w.address = gimbal_address /\ w.position = 104

\* a write to the LED register of the fire control board, 0x35
IsLedWrite(w) ==
  IsWrite(w) /\ w.address = fire_control_address /\ w.position = 53

IsGimbalWrite(w) == IsWrite(w) /\ w.address = gimbal_address

\* the pitch, in milli-degrees, that a write to 0x50 carries
PitchOfWrite(w) ==
  IF w.fn = "RamWrite" THEN w.value ELSE get_int32(w.data, 0)

\* the yaw, in milli-degrees, that an 8-byte write to 0x50 carries
YawOfWrite(w) == get_int32(w.data, 4)

Indices(issued, P(_)) == { i \in 1..Len(issued) : P(issued[i]) }

\* e is a run of SetCommand whose command was not dropped as a repeat, d
\* being data_ when it started
Accepted(d, e) ==
  e.op = "SetCommand" /\ Val(e.cmd).sequence # d.last_sequence

-----------------------------------------------------------------------------
(* C1: of two calls of SetCommand with the same sequence number, with     *)
(* only ticks and completions between them, the second emits its          *)
(* CommandLog entry, issues no device write and changes no field of       *)
(* data_.                                                                  *)
C1_Deduplication ==
  [][ (ev'.op = "SetCommand" /\ prev_sequence = Some(Val(ev'.cmd).sequence))
        => /\ ev'.log = << Val(ev'.cmd) >>
           /\ ev'.issued = <<>>
           /\ data_' = data_ ]_vars

(* C2: every write issued to the gimbal pitch command register carries a  *)
(* pitch inside [min_y_deg, max_y_deg], whichever handler issued it.      *)
C2_PitchWithinLimits ==
  \A i \in 1..Len(ev.issued) :
    IsPitchWrite(ev.issued[i])
      => /\ min_y_deg <= FromMilli(PitchOfWrite(ev.issued[i]))
         /\ FromMilli(PitchOfWrite(ev.issued[i])) <= max_y_deg

(* C3: an accepted command with an absolute field issues exactly one      *)
(* write to the pitch command register; it carries max_y_deg when y_deg   *)
(* is above max_y_deg, min_y_deg when y_deg is below min_y_deg, and the   *)
(* requested pitch in whole milli-degrees otherwise; every value written  *)
(* to the absolute yaw command register is within [0, 0x3fff].           *)
C3_AbsoluteClamping ==
  [][ (Accepted(data_, ev') /\ Has(Val(ev'.cmd).absolute))
        => LET y == Val(Val(ev'.cmd).absolute).y_deg
               pitch == Indices(ev'.issued, IsPitchWrite)
               yaw == Indices(ev'.issued, IsAbsoluteYawWrite)
           IN /\ Cardinality(pitch) = 1
              /\ \A i \in pitch :
                   /\ y > max_y_deg
                        => FromMilli(PitchOfWrite(ev'.issued[i])) = max_y_deg
                   /\ y < min_y_deg
                        => FromMilli(PitchOfWrite(ev'.issued[i])) = min_y_deg
                   /\ (min_y_deg <= y /\ y <= max_y_deg)
                        => PitchOfWrite(ev'.issued[i]) = ToMilli(y)
              /\ Cardinality(yaw) = 1
              /\ \A i \in yaw :
                   0 <= ev'.issued[i].value /\ ev'.issued[i].value <= 16383
    ]_vars

\* an absolute command above max_y_deg was accepted and its pitch write,
\* carrying 30000 milli-degrees, is in flight
C3_Witness ==
  /\ ev.op = "SetCommand"
  /\ Has(Val(ev.cmd).absolute)
  /\ Val(Val(ev.cmd).absolute).y_deg > max_y_deg
  /\ \E i \in 1..Len(outstanding) :
       /\ IsPitchWrite(outstanding[i])
       /\ outstanding[i] = ev.issued[1]
       /\ FromMilli(outstanding[i].value) = max_y_deg

(* C4: an accepted command takes exactly one branch, in the order         *)
(* absolute, IMU relative, rate.  With absolute: imu_command is cleared,  *)
(* rate zeroed, and the gimbal writes are the pitch and absolute yaw      *)
(* writes.  With IMU relative and no absolute: imu_command is set from    *)
(* the command, rate zeroed (a rate field of the command is not stored),  *)
(* and the one gimbal write is the 8-byte command write.  The rate field  *)
(* is stored only when neither is present, with no gimbal write.          *)
C4_Priority ==
  [][ Accepted(data_, ev')
        => LET c == Val(ev'.cmd)
               gimbal == Indices(ev'.issued, IsGimbalWrite)
               ram == { i \in gimbal : ev'.issued[i].fn = "RamWrite" }
               mem == { i \in gimbal : ev'.issued[i].fn = "MemWrite" }
           IN /\ Has(c.absolute)
                   => /\ data_'.imu_command = None
                      /\ data_'.rate = ZeroRate
                      /\ mem = {}
                      /\ Cardinality(ram) = 2
                      /\ \E i \in ram : IsPitchWrite(ev'.issued[i])
                      /\ \E i \in ram : IsAbsoluteYawWrite(ev'.issued[i])
              /\ (~Has(c.absolute) /\ Has(c.imu))
                   => /\ Has(data_'.imu_command)
                      /\ Val(data_'.imu_command).x_deg = Val(c.imu).x_deg
                      /\ Val(data_'.imu_command).y_deg =
                           Limit(min_y_deg, max_y_deg, Val(c.imu).y_deg)
                      /\ data_'.rate = ZeroRate
                      /\ ram = {}
                      /\ Cardinality(mem) = 1
                      /\ \A i \in mem :
                           /\ IsPitchWrite(ev'.issued[i])
                           /\ Len(ev'.issued[i].data) = 8
              /\ (~Has(c.absolute) /\ ~Has(c.imu))
                   => /\ gimbal = {}
                      /\ data_'.imu_command = data_.imu_command
                      /\ data_'.rate =
                           IF Has(c.rate) THEN Val(c.rate) ELSE data_.rate
    ]_vars

\* a command with an IMU relative and a nonzero rate field, and no absolute
\* field, was accepted: the rate stored is zero
C4_Witness ==
  /\ ev.op = "SetCommand"
  /\ Val(ev.cmd).sequence # data_.last_sequence
  /\ ~Has(Val(ev.cmd).absolute)
  /\ Has(Val(ev.cmd).imu)
  /\ Has(Val(ev.cmd).rate)
  /\ Val(Val(ev.cmd).rate) # ZeroRate
  /\ data_.rate = ZeroRate
  /\ Has(data_.imu_command)
  /\ Len(ev.issued) = 2

(* C5: every accepted command issues exactly one write to the LED         *)
(* register of the fire control board; its value is 4 (bit 2 alone) when  *)
(* laser_on is true and 0 when it is false, whichever branch was taken.   *)
C5_LaserFlag ==
  [][ Accepted(data_, ev')
        => LET led == Indices(ev'.issued, IsLedWrite)
           IN /\ Cardinality(led) = 1
              /\ \A i \in led :
                   ev'.issued[i].value =
                     IF Val(ev'.cmd).laser_on THEN 4 ELSE 0 ]_vars

\* an accepted absolute command with laser_on: the third write of the run
\* is the LED write, carrying 4
C5_Witness ==
  /\ ev.op = "SetCommand"
  /\ Val(ev.cmd).laser_on
  /\ Has(Val(ev.cmd).absolute)
  /\ Len(ev.issued) = 3
  /\ IsLedWrite(ev.issued[3])
  /\ ev.issued[3].value = 4

(* C6: every call of SetCommand emits exactly one CommandLog entry, which *)
(* carries the command received, whether the command is then dropped as a *)
(* repeat or acted on.                                                     *)
C6_CommandLog ==
  [][ ev'.op = "SetCommand" => ev'.log = << Val(ev'.cmd) >> ]_vars

\* a command with the sequence of last_sequence was dropped: nothing was
\* issued, and its log entry was emitted
C6_Witness ==
  /\ ev.op = "SetCommand"
  /\ Val(ev.cmd).sequence = data_.last_sequence
  /\ ev.issued = <<>>
  /\ ev.log = << Val(ev.cmd) >>

(* C7: a poll tick that finds imu_command known and rate nonzero in some  *)
(* axis stores (x + rate.x * period_s, limit(y + rate.y * period_s)) into *)
(* imu_command, yaw unlimited, and issues exactly one gimbal write: the   *)
(* 8-byte write at 0x50 whose fields decode to the value just stored, in *)
(* the whole milli-degrees of the encoding.  A tick that finds rate zero  *)
(* in both axes leaves imu_command alone and issues no gimbal write.      *)
C7_RateIntegration ==
  [][ (ev'.op = "HandleTimer" /\ ev'.ec = "ok")
        => LET written == Indices(ev'.issued, IsGimbalWrite)
           IN /\ (Has(data_.imu_command)
                  /\ (data_.rate.x_deg_s # 0 \/ data_.rate.y_deg_s # 0))
                   => /\ Has(data_'.imu_command)
                      /\ Val(data_'.imu_command).x_deg =
                           Val(data_.imu_command).x_deg
                             + data_.rate.x_deg_s * period_s
                      /\ Val(data_'.imu_command).y_deg =
                           Limit(min_y_deg, max_y_deg,
                                 Val(data_.imu_command).y_deg
                                   + data_.rate.y_deg_s * period_s)
                      /\ Cardinality(written) = 1
                      /\ \A i \in written :
                           /\ ev'.issued[i].fn = "MemWrite"
                           /\ IsPitchWrite(ev'.issued[i])
                           /\ Len(ev'.issued[i].data) = 8
                           /\ PitchOfWrite(ev'.issued[i]) =
                                ToMilli(Val(data_'.imu_command).y_deg)
                           /\ YawOfWrite(ev'.issued[i]) =
                                ToMilli(Val(data_'.imu_command).x_deg)
              /\ (data_.rate.x_deg_s = 0 /\ data_.rate.y_deg_s = 0)
                   => /\ data_'.imu_command = data_.imu_command
                      /\ written = {}
    ]_vars

\* a tick integrated the rate (10, 0) from (5.000, -2.000): imu_command is
\* (5.025, -2.000) and the write of the tick carries yaw 5025
C7_Witness ==
  /\ ev.op = "HandleTimer"
  /\ ev.ec = "ok"
  /\ data_.rate = Rate(10, 0)
  /\ data_.imu_command = Some(Imu(50250, -20000))
  /\ Len(ev.issued) = 2
  /\ ev.issued[1].fn = "MemWrite"
  /\ YawOfWrite(ev.issued[1]) = 5025
  /\ PitchOfWrite(ev.issued[1]) = -2000

(* C8, as stated: when the fire control read of a poll tick completes,    *)
(* exactly one snapshot has been published for that tick.                 *)
C8_OneSnapshotPerCycle ==
  (ev.op = "HandleFireControl" /\ ev.ec = "ok") => ev.cycle.emits = 1

(* C8, amended: the completion of a tick's fire control read publishes    *)
(* one snapshot, and the completion of its command-register read, on a    *)
(* tick that issued one, publishes one more; no other handler publishes.  *)
(* When the fire control read completes, the snapshots published for the  *)
(* tick are one, or two if its command-register read has completed.       *)
C8_SnapshotsPerCycle ==
  /\ (ev.op = "HandleFireControl" /\ ev.ec = "ok")
       => /\ ev.emits = 1
          /\ ev.cycle.emits = 1 + (IF ev.cycle.cmdDone THEN 1 ELSE 0)
  /\ (ev.op = "HandleCommand" /\ ev.ec = "ok")
       => /\ ev.emits = 1
          /\ ev.cycle.cmdIssued
  /\ (ev.op \notin {"HandleFireControl", "HandleCommand"} \/ ev.ec # "ok")
       => ev.emits = 0
  /\ \A t \in Cycles :
       /\ cycle[t].cmdDone => cycle[t].cmdIssued
       /\ cycle[t].emits = (IF cycle[t].cmdDone THEN 1 ELSE 0)
                             + (IF cycle[t].fcDone THEN 1 ELSE 0)

\* the fire control read of a tick that had issued the command-register
\* read completed: two snapshots were published for the tick
C8_Witness ==
  /\ ev.op = "HandleFireControl"
  /\ ev.ec = "ok"
  /\ ev.cycle.cmdIssued
  /\ ev.cycle.emits = 2

(* C9, as stated: on a tick at which imu_command is none the 10-byte      *)
(* read is not issued until the 8-byte command-register read of that tick *)
(* has completed, so the two are never in flight together.                *)
C9_StrictStepOrder ==
  \A i, j \in 1..Len(outstanding) :
    ~ /\ outstanding[i].handler = "HandleCommand"
      /\ outstanding[j].handler = "HandleCurrent"
      /\ outstanding[i].tick = outstanding[j].tick

\* the step of the poll tick that issues a request
StepOf(w) ==
  CASE w.handler = "HandleCommand" -> 1
    [] w.handler = "HandleWrite" -> 2
    [] w.handler = "HandleCurrent" -> 3
    [] OTHER -> 4

(* C9, amended: a poll tick issues its requests in the listed order       *)
(* (command-register read, rate write, 10-byte read) in one run of the    *)
(* timer handler, the 10-byte read last and always; only the fire control *)
(* read waits for a completion: it is issued by the completion of the     *)
(* 10-byte read of its tick and by nothing else.                           *)
C9_IssueOrder ==
  /\ (ev.op = "HandleTimer" /\ ev.ec = "ok")
       => /\ Len(ev.issued) >= 1
          /\ StepOf(ev.issued[Len(ev.issued)]) = 3
          /\ \A i, j \in 1..Len(ev.issued) :
               i < j => StepOf(ev.issued[i]) < StepOf(ev.issued[j])
          /\ \A i \in 1..Len(ev.issued) : ev.issued[i].tick = ev.tick
  /\ \A i \in 1..Len(ev.issued) :
       ev.issued[i].handler = "HandleFireControl"
         => /\ ev.op = "HandleCurrent"
            /\ ev.ec = "ok"
            /\ ev.issued[i].tick = ev.tick
  /\ \A i, j \in 1..Len(outstanding) :
       ~ /\ outstanding[i].handler = "HandleCurrent"
         /\ outstanding[j].handler = "HandleFireControl"
         /\ outstanding[i].tick = outstanding[j].tick

\* a tick that found imu_command none issued the command-register read and
\* the 10-byte read in the same run, and both are in flight
C9_Witness ==
  /\ ev.op = "HandleTimer"
  /\ ev.ec = "ok"
  /\ Len(ev.issued) = 2
  /\ ev.issued[1].handler = "HandleCommand"
  /\ ev.issued[2].handler = "HandleCurrent"
  /\ \E i \in 1..Len(outstanding) : outstanding[i] = ev.issued[1]
  /\ \E i \in 1..Len(outstanding) : outstanding[i] = ev.issued[2]

(* C10, as stated: at most one device request is outstanding.             *)
C10_OneOutstanding == Len(outstanding) <= 1

(* C10, amended: requests are handed to the link without waiting for the  *)
(* earlier ones, so several are outstanding at once; what is bounded is   *)
(* one run of a handler: a poll tick issues one or two requests, a call   *)
(* of SetCommand at most three, all writes, the completion of the 10-byte *)
(* read exactly one, and every other completion none.                     *)
C10_IssuedPerRun ==
  /\ (ev.op = "HandleTimer" /\ ev.ec = "ok")
       => Len(ev.issued) \in {1, 2}
  /\ ev.op = "SetCommand"
       => /\ Len(ev.issued) <= 3
          /\ \A i \in 1..Len(ev.issued) : IsWrite(ev.issued[i])
  /\ (ev.op = "HandleCurrent" /\ ev.ec = "ok") => Len(ev.issued) = 1
  /\ (ev.op \notin {"HandleTimer", "SetCommand", "HandleCurrent"}
      \/ ev.ec # "ok")
       => ev.issued = <<>>

\* three requests are in flight: reads of a poll tick and a write of a
\* command that arrived meanwhile
C10_Witness ==
  /\ Len(outstanding) = 3
  /\ ev.op = "SetCommand"
  /\ \E i \in 1..Len(outstanding) : outstanding[i].handler = "HandleCommand"
  /\ \E i \in 1..Len(outstanding) : outstanding[i].handler = "HandleCurrent"
  /\ IsLedWrite(outstanding[3])

\* the completion handlers of device requests
Completions ==
  {"HandleCommand", "HandleCurrent", "HandleFireControl", "HandleWrite"}

(* C11: a device completion that carries an error changes no field of     *)
(* data_, publishes no snapshot, issues no request and leaves none in     *)
(* flight (nothing is retried), and ends the process; from then on no     *)
(* handler runs at all: no poll tick, no completion, no snapshot, no      *)
(* command.                                                                *)
C11_TransportFailureFatal ==
  [][ /\ ~failed
      /\ (ev'.op \in Completions /\ ev'.ec = "error")
           => /\ failed'
              /\ data_' = data_
              /\ ev'.emits = 0
              /\ ev'.issued = <<>>
              /\ outstanding' = <<>>
              /\ timer' # "pending"
      /\ (ev'.op \in Completions /\ ev'.ec # "error") => ~failed'
    ]_vars

\* the 10-byte read of a tick failed after the command-register read of the
\* tick had published the first snapshot: the process is gone
C11_Witness ==
  /\ failed
  /\ ev.op = "HandleCurrent"
  /\ ev.ec = "error"
  /\ Has(data_.imu_command)
  /\ outstanding = <<>>

\* a read of the IMU and absolute coordinates, the 10-byte read of a poll
IsCurrentRead(w) == w.fn = "MemRead" /\ w.handler = "HandleCurrent"

(* C12: a run of the timer handler with operation_aborted raises no       *)
(* failure, runs no poll (no request issued, no field of data_ changed,   *)
(* no snapshot) and does not arm the timer again; a run with any other    *)
(* error is fatal; a run without error arms the timer again and runs one  *)
(* poll: it hands one 10-byte read, and its other requests, to the link.  *)
C12_TimerCancellation ==
  [][ ev'.op = "HandleTimer"
        => /\ ev'.ec = "operation_aborted"
                => /\ ~failed'
                   /\ timer' # "pending"
                   /\ ev'.issued = <<>>
                   /\ ev'.emits = 0
                   /\ data_' = data_
                   /\ outstanding' = outstanding
                   /\ cycle' = cycle
           /\ ev'.ec = "error" => failed' /\ timer' # "pending"
           /\ ev'.ec = "ok"
                => /\ ~failed'
                   /\ timer' = "pending"
                   /\ Cardinality(Indices(ev'.issued, IsCurrentRead)) = 1
                   /\ outstanding' = outstanding \o ev'.issued
    ]_vars

\* the timer was cancelled while the reads of a tick were in flight: the
\* aborted completion was dropped, the process lives, the reads go on
C12_Witness ==
  /\ ev.op = "HandleTimer"
  /\ ev.ec = "operation_aborted"
  /\ ~failed
  /\ timer = "stopped"
  /\ Len(outstanding) >= 2

(* C13: an accepted absolute command sets imu_command to none and rate to *)
(* zero, and the poll tick that follows it, whatever completions run in   *)
(* between, issues the 8-byte command-register read and no write to the   *)
(* gimbal.                                                                 *)
C13_AbsoluteForcesRelearn ==
  [][ /\ (Accepted(data_, ev') /\ Has(Val(ev'.cmd).absolute))
           => /\ data_'.imu_command = None
              /\ data_'.rate = ZeroRate
      /\ (relearn /\ ev'.op = "HandleTimer" /\ ev'.ec = "ok")
           => /\ IssuesCommandRead(ev'.issued)
              /\ Indices(ev'.issued, IsGimbalWrite) = {}
    ]_vars

\* a milli-degree value of the signed 28-bit range
InSigned28(v) == -134217728 <= v /\ v <= 134217727

(* C14: every byte MakeCommand produces has its top bit clear, and for    *)
(* every whole milli-degree value in [-2^27, 2^27 - 1] get_int32 of the   *)
(* four bytes MakeCommand produced for it is the value again, in the      *)
(* pitch field (bytes 0-3) and in the yaw field (bytes 4-7).              *)
C14_RoundTrip ==
  codec.from = "command"
    => LET pitch == ToMilli(codec.command.y_deg)
           yaw == ToMilli(codec.command.x_deg)
       IN /\ codec.stage \in {"data", "decoded"}
               => /\ Len(codec.data) = 8
                  /\ \A i \in 1..8 : codec.data[i] \in 0..127
          /\ codec.stage = "decoded"
               => /\ InSigned28(pitch) => codec.decoded[1] = pitch
                  /\ InSigned28(yaw) => codec.decoded[2] = yaw

\* the two ends of the range went through: pitch -2^27 and yaw 2^27 - 1
\* were encoded and decoded to themselves
C14_Witness ==
  /\ codec.from = "command"
  /\ codec.stage = "decoded"
  /\ codec.command = Imu(FromMilli(134217727), FromMilli(-134217728))
  /\ codec.data = <<0, 0, 0, 64, 127, 127, 127, 63>>
  /\ codec.decoded = <<-134217728, 134217727>>

\* b0 | b1<<7 | b2<<14 | b3<<21 of four bytes below 0x80, as a sum
Unsigned28(data, index) ==
  data[index + 1] + data[index + 2] * 128 + data[index + 3] * 16384
    + data[index + 4] * 2097152

(* C15, as stated: for four bytes below 0x80, get_int32 returns           *)
(* u = b0 | b1<<7 | b2<<14 | b3<<21 when u < 0x8000000 and u - 0x8000000  *)
(* when u >= 0x8000000.                                                    *)
C15_DecodeSubtracts27 ==
  (codec.from = "response" /\ codec.stage = "decoded")
    => \A f \in {0, 1} :
         LET u == Unsigned28(codec.data, 4 * f)
         IN codec.decoded[f + 1] =
              IF u < 134217728 THEN u ELSE u - 134217728

(* C15, amended: for four bytes below 0x80, get_int32 returns u when      *)
(* u < 0x8000000 (2^27) and u - 0x10000000 (u - 2^28) when                *)
(* u >= 0x8000000: the two's complement value of the 28 bits.             *)
C15_DecodeSigned28 ==
  (codec.from = "response" /\ codec.stage = "decoded")
    => \A f \in {0, 1} :
         LET u == Unsigned28(codec.data, 4 * f)
         IN /\ codec.decoded[f + 1] =
                 IF u < 134217728 THEN u ELSE u - 268435456
            /\ InSigned28(codec.decoded[f + 1])

\* a response whose pitch field has only bit 27 set, u = 0x8000000, decoded
\* to -2^27, and its yaw field, u = 64, to 64
C15_Witness ==
  /\ codec.from = "response"
  /\ codec.stage = "decoded"
  /\ codec.data = <<0, 0, 0, 64, 64, 0, 0, 0>>
  /\ codec.decoded = <<-134217728, 64>>

(* C16: after every call of SetCommand whose command was accepted (its    *)
(* sequence differs from last_sequence), last_sequence is the sequence of *)
(* that command; no other step changes last_sequence.                     *)
C16_LastSequenceTracks ==
  [][ /\ Accepted(data_, ev')
           => data_'.last_sequence = Val(ev'.cmd).sequence
      /\ ~Accepted(data_, ev')
           => data_'.last_sequence = data_.last_sequence ]_vars

(* C17: an accepted command with neither an absolute nor an IMU relative  *)
(* field issues one device write and no more, the LED write; no field of  *)
(* data_ but rate changes, so imu_command is as it was; rate becomes the  *)
(* rate field of the command when it has one and is as it was when it has *)
(* none.                                                                   *)
C17_RateOnlyAndEmpty ==
  [][ (/\ Accepted(data_, ev')
       /\ ~Has(Val(ev'.cmd).absolute)
       /\ ~Has(Val(ev'.cmd).imu))
        => /\ Len(ev'.issued) = 1
           /\ IsLedWrite(ev'.issued[1])
           /\ outstanding' = Append(outstanding, ev'.issued[1])
           /\ data_' = [data_ EXCEPT !.rate =
                          IF Has(Val(ev'.cmd).rate)
                          THEN Val(Val(ev'.cmd).rate)
                          ELSE data_.rate]
    ]_vars

\* a command with no field but laser_on was accepted while a rate motion
\* was running from a known command: the motion goes on
C17_Witness ==
  /\ ev.op = "SetCommand"
  /\ Val(ev.cmd).sequence # data_.last_sequence
  /\ Val(ev.cmd).absolute = None
  /\ Val(ev.cmd).imu = None
  /\ Val(ev.cmd).rate = None
  /\ data_.rate = Rate(10, 0)
  /\ Has(data_.imu_command)
  /\ Len(ev.issued) = 1
  /\ IsLedWrite(ev.issued[1])

\* the 8-byte read of the gimbal's command registers
IsCommandRead(w) ==
  /\ w.fn = "MemRead"
  /\ w.address = gimbal_address
  /\ w.position = 80
  /\ w.length = 8

\* the 10-byte read of the gimbal's IMU and absolute coordinates
IsTelemetryRead(w) ==
  /\ w.fn = "MemRead"
  /\ w.address = gimbal_address
  /\ w.position = 88
  /\ w.length = 10

(* C18: a poll tick that finds imu_command none issues the 8-byte         *)
(* command-register read, issues no write and leaves imu_command none,    *)
(* whatever rate is; a tick that finds imu_command known issues no        *)
(* command-register read; and every tick issues exactly one 10-byte       *)
(* telemetry read.                                                         *)
C18_StepsExclusive ==
  [][ (ev'.op = "HandleTimer" /\ ev'.ec = "ok")
        => LET reads == Indices(ev'.issued, IsCommandRead)
               writes == Indices(ev'.issued, IsWrite)
           IN /\ ~Has(data_.imu_command)
                   => /\ Cardinality(reads) = 1
                      /\ writes = {}
                      /\ data_'.imu_command = None
              /\ Has(data_.imu_command) => reads = {}
              /\ reads = {} \/ writes = {}
              /\ Cardinality(Indices(ev'.issued, IsTelemetryRead)) = 1
    ]_vars

\* a tick found a rate set and imu_command none: it issued the two reads,
\* no write, and imu_command is still none
C18_Witness ==
  /\ ev.op = "HandleTimer"
  /\ ev.ec = "ok"
  /\ data_.imu_command = None
  /\ data_.rate = Rate(10, 0)
  /\ Len(ev.issued) = 2
  /\ IsCommandRead(ev.issued[1])
  /\ IsTelemetryRead(ev.issued[2])

(* C19: whenever the completion of a command-register read stores the     *)
(* value it decoded, imu_command is none at that moment: it never         *)
(* replaces a value that an IMU relative command, a rate step or an       *)
(* earlier completion stored after the read was issued.                   *)
C19_NoOverwriteOfKnownCommand ==
  [][ (ev'.op = "HandleCommand" /\ ev'.ec = "ok")
        => data_.imu_command = None ]_vars

\* the 10-byte read of tick t is in flight
TelemetryInFlight(t) ==
  \E i \in 1..Len(outstanding) :
    outstanding[i].handler = "HandleCurrent" /\ outstanding[i].tick = t

\* the 2-byte read of the fire control board of tick t is in flight
FireControlInFlight(t) ==
  \E i \in 1..Len(outstanding) :
    /\ outstanding[i].handler = "HandleFireControl"
    /\ outstanding[i].tick = t
    /\ outstanding[i].address = fire_control_address
    /\ outstanding[i].length = 2

\* the 10-byte read of tick t has just completed and issued the 2-byte read
TelemetryCompleted(t) ==
  /\ ev.op = "HandleCurrent"
  /\ ev.ec = "ok"
  /\ ev.tick = t
  /\ ev.issued = FireControlRead(t)
  /\ FireControlInFlight(t)

\* the 2-byte read of tick t has just completed and published data_ with
\* the two flags of its response
SnapshotPublished(t) ==
  /\ ev.op = "HandleFireControl"
  /\ ev.ec = "ok"
  /\ ev.tick = t
  /\ ev.emits = 1
  /\ data_.fire_enabled = (ev.response[1] # 0)
  /\ data_.agitator_enabled = (ev.response[2] # 0)

(* C20: when the link does not fail and the timer is not cancelled, once  *)
(* AsyncStart has armed the timer ticks occur for ever; every tick has    *)
(* its 10-byte read in flight, which leads to that read's completion      *)
(* issuing the 2-byte fire control read, which leads to the completion of *)
(* that read publishing a snapshot whose fire_enabled and                 *)
(* agitator_enabled are (byte 0 # 0, byte 1 # 0) of its response; the     *)
(* 2-byte read of a tick is never in flight before the 10-byte read of    *)
(* the tick has completed.                                                 *)
C20_PollChainProgress ==
  /\ [](timer # "pending") \/ []<><<HandleTimerRace>>_vars
  /\ [](\A t \in Cycles :
          (ev.op = "HandleTimer" /\ ev.ec = "ok" /\ ev.tick = t)
            => TelemetryInFlight(t))
  /\ \A t \in Cycles : TelemetryInFlight(t) ~> TelemetryCompleted(t)
  /\ \A t \in Cycles : TelemetryCompleted(t) ~> SnapshotPublished(t)
  /\ [](\A t \in Cycles : ~(TelemetryInFlight(t) /\ FireControlInFlight(t)))
  /\ [](\A t \in Cycles : FireControlInFlight(t) => cycle[t].active)

\* the chain of one tick has ended in a snapshot with fire_enabled set from
\* the response 03 00, while the reads of the next tick are in flight
C20_Witness ==
  /\ timer = "pending"
  /\ ev.op = "HandleFireControl"
  /\ ev.ec = "ok"
  /\ ev.emits = 1
  /\ ev.response = <<3, 0>>
  /\ data_.fire_enabled
  /\ ~data_.agitator_enabled
  /\ \E t \in Cycles : t # ev.tick /\ TelemetryInFlight(t)

====
